---- MODULE Spec2Model ----
(***************************************************************************)
(* RadExtract: the roster of MergedRecords held by App (patientData), the  *)
(* cohort upsert handleDataLoaded, the PatientUploader's local list, the   *)
(* single-record extraction of AnalysisView and the chunked batch runner   *)
(* handleBatchProcess with the retrying extraction client.                 *)
(*                                                                         *)
(* Modelling conventions                                                   *)
(*  - A JavaScript object is a record over a fixed key set; a key that is  *)
(*    absent and a key whose value is undefined are both Undef.  Every     *)
(*    two-source spread of the program ({...a, ...b}) either has a b whose *)
(*    keys are all defined or overrides the possibly-undefined keys        *)
(*    explicitly, so the two cases never differ in what is stored.         *)
(*  - React state setters take effect with the step that calls them: a     *)
(*    render completes between any two handler steps.                      *)
(*  - An async function is cut at its awaits; each piece is one action.    *)
(*    What runs after an await without another await in between belongs    *)
(*    to the step that resolves it.                                        *)
(*                                                                         *)
(* Specifications: Spec (the application on up to two records),           *)
(* SpecBatch (one batch run on up to MaxQueue records, with retries),      *)
(* SpecRun (a batch run and a stop request), SpecRetry (the extraction     *)
(* client under every failure), SpecClassify (getErrorType),               *)
(* SpecReconcile (handleDataLoaded on every small roster and batch),       *)
(* SpecImport (tables processed and imported), SpecMatch (folder uploads   *)
(* into the uploader's list), SpecReimport (one table per import),         *)
(* SpecTime (calculateTimeToStudy), SpecSnapshot (imports before and       *)
(* during a batch run), SpecWriteBack (an import while a single-record     *)
(* extraction is pending) and                                              *)
(* SpecUpload (the uploader with file reads that overlap with everything   *)
(* else).                                                                  *)
(***************************************************************************)
EXTENDS Integers, Sequences, FiniteSets, TLC

\* ------------------------------------------------------------------ bounds
MaxRows == 2        \* data rows of one parsed table
MaxTransient == 1   \* 429/503 answers the service gives to one extraction
MaxQueue == 6       \* roster size of the batch-run specification
MaxSingles == 1     \* handleExtract calls in flight at once
MaxFiles == 2       \* files of one folder upload
MaxRetryQueue == 2  \* roster size of the retry specification
MaxTokens == 2      \* telltale substrings in one error message
MaxPastes == 2      \* tables processed in the import specification
MaxHours == 25      \* whole hours between two of the instants tried

\* ------------------------------------------------------- program constants
BATCH_SIZE == 5
DefaultRetries == 3

\* ------------------------------------------------------------------ values
Undef == "undefined"
Ids == {"101", "102"}
DefaultName == "Unknown"
CsvNames == {DefaultName, "Bob"}
FileText == "rB"
TypedTexts == {FileText}
ServiceData == "d1"
EditedData == "d2"
TransientError == "429 quota exceeded"
PermanentError == "API key not valid"
MissingKeyError == "API Key is missing or invalid"
Statuses == {"PENDING", "EXTRACTED", "REVIEWED", "ERROR"}

\* "" and "rA" stand for texts of fewer than 50 characters, FileText for a
\* longer one
IsShort(t) == t \in {"", "rA"}

\* no call of calculateTimeToStudy is followed
NoCalc == [start |-> Undef, end |-> Undef, result |-> Undef]

\* JavaScript truthiness of a value that is a string or undefined
Truthy(v) == v # Undef /\ v # ""

\* a || b
JsOr(a, b) == IF Truthy(a) THEN a ELSE b

\* a key of b overrides the key of a when b has it: one key of {...a, ...b}
SpreadKey(a, b) == IF b # Undef THEN b ELSE a

MkRec(id, name, text, fname, data, status, err) ==
  [id |-> id, name |-> name, radiologyReportText |-> text,
   reportFilename |-> fname, extractedData |-> data,
   extractionStatus |-> status, extractionError |-> err]

\* Array.prototype.findIndex(p => p.id === id); 0 stands for -1
FindIndex(seq, id) ==
  IF \E i \in 1..Len(seq) : seq[i].id = id
  THEN CHOOSE i \in 1..Len(seq) :
         seq[i].id = id /\ \A j \in 1..(i - 1) : seq[j].id # id
  ELSE 0

\* ------------------------------------------------- App.handleDataLoaded
\* mutant: the update branch lets the incoming row overwrite the status
MergeExistingTakesIncomingStatus(existing, incoming) ==
  [id |-> incoming.id,
   name |-> SpreadKey(existing.name, incoming.name),
   radiologyReportText |->
     JsOr(incoming.radiologyReportText, existing.radiologyReportText),
   reportFilename |-> JsOr(incoming.reportFilename, existing.reportFilename),
   extractedData |-> existing.extractedData,
   extractionStatus |->
     SpreadKey(existing.extractionStatus, incoming.extractionStatus),
   extractionError |-> existing.extractionError]

\* mutant: the report text is taken from the incoming row unconditionally
MergeExistingOverwritesText(existing, incoming) ==
  [id |-> incoming.id,
   name |-> SpreadKey(existing.name, incoming.name),
   radiologyReportText |-> incoming.radiologyReportText,
   reportFilename |-> JsOr(incoming.reportFilename, existing.reportFilename),
   extractedData |-> existing.extractedData,
   extractionStatus |-> existing.extractionStatus,
   extractionError |-> existing.extractionError]

\* the UPDATE branch: {...existing, ...incoming, five explicit keys}
MergeExisting(existing, incoming) ==
  [id |-> incoming.id,
   name |-> SpreadKey(existing.name, incoming.name),
   radiologyReportText |->
     JsOr(incoming.radiologyReportText, existing.radiologyReportText),
   reportFilename |-> JsOr(incoming.reportFilename, existing.reportFilename),
   extractedData |-> existing.extractedData,
   extractionStatus |-> existing.extractionStatus,
   extractionError |-> existing.extractionError]

\* mutant: a new record is stored without its report text
InsertNewDropsText(incoming) ==
  [incoming EXCEPT !.extractionStatus = "PENDING", !.radiologyReportText = Undef]

\* the INSERT branch: {...incoming, extractionStatus: 'PENDING'}
InsertNew(incoming) == [incoming EXCEPT !.extractionStatus = "PENDING"]

\* mutant: every incoming row is pushed, the lookup by id is skipped
UpsertOneAlwaysPush(nextData, incoming) == Append(nextData, InsertNew(incoming))

\* the body of incomingRecords.forEach
UpsertOne(nextData, incoming) ==
  LET index == FindIndex(nextData, incoming.id)
  IN IF index > 0
     THEN [nextData EXCEPT ![index] = MergeExisting(nextData[index], incoming)]
     ELSE Append(nextData, InsertNew(incoming))

RECURSIVE HandleDataLoadedFn(_, _)
\* the updater passed to setPatientData: prevData -> nextData
HandleDataLoadedFn(prevData, incomingRecords) ==
  IF incomingRecords = <<>>
  THEN prevData
  ELSE HandleDataLoadedFn(UpsertOne(prevData, Head(incomingRecords)),
                          Tail(incomingRecords))

\* ---------------------------------------------------------------- state
VARIABLES
  patientData,        \* App: the roster, a sequence of MergedRecords
  patientGen,         \* object identity of each roster entry (see Obj below)
  view,               \* App: 'UPLOAD' | 'LIST' | 'DETAIL'
  selectedPatientId,  \* App
  isBatchProcessing,  \* App
  batchProgress,      \* App: [current, total]
  localRecords,       \* PatientUploader: useState(existingData || [])
  localGen,
  folderPc,           \* handleFolderUpload: "idle" | "reading" (await file.text())
  folderUpdated,      \* handleFolderUpload: the array updatedRecords
  folderGen,
  folderFiles,        \* handleFolderUpload: files not yet read
  folderMounted,      \* whether the uploader that started the read is mounted
  avReportText,       \* AnalysisView: reportText
  avData,             \* AnalysisView: data
  avStatus,           \* AnalysisView: status
  singles,            \* handleExtract calls awaiting extractDataFromReport
  batchPc,            \* handleBatchProcess: "idle" | "running"
  queue,              \* handleBatchProcess: the snapshot queue
  queueGen,
  batchI,             \* handleBatchProcess: the loop variable i
  calls,              \* one extractDataFromReport call per dispatched item
  progressLog,        \* values passed to setBatchProgress in the current run
  apiKeyOk,           \* process.env.API_KEY is set and is not the placeholder
  reconIncoming,      \* reconcile specification: the incoming batch
  reconPrev,          \* reconcile specification: the roster before each call
  reconStep,          \* reconcile specification: calls made so far
  logMsg,             \* ErrorLog: the message of a listed record, lower-cased
  logType,            \* ErrorLog: the type getErrorType gives it
  pastedTables,       \* import specification: the tables that will be pasted
  pasteStep,          \* import specification: tables processed so far
  timeCalc            \* one call of calculateTimeToStudy: [start, end, result]

vars == <<patientData, patientGen, view, selectedPatientId, isBatchProcessing,
          batchProgress, localRecords, localGen, folderPc, folderUpdated,
          folderGen, folderFiles, folderMounted, avReportText, avData,
          avStatus, singles, batchPc, queue, queueGen, batchI, calls,
          progressLog, apiKeyOk, reconIncoming, reconPrev,
          reconStep, logMsg, logType, pastedTables, pasteStep, timeCalc>>

appVars == <<patientData, patientGen, view, selectedPatientId>>
runVars == <<isBatchProcessing, batchProgress, batchPc, queue, queueGen,
             batchI, calls, progressLog>>
upVars == <<localRecords, localGen>>
folderVars == <<folderPc, folderUpdated, folderGen, folderFiles, folderMounted>>
avVars == <<avReportText, avData, avStatus>>
envVars == <<apiKeyOk>>
reconVars == <<reconIncoming, reconPrev, reconStep, logMsg, logType,
               pastedTables, pasteStep, timeCalc>>

\* -------------------------------------------------------- object identity
\* Records are JavaScript objects and handleFolderUpload writes into them in
\* place, so it matters which arrays and closures hold the same object.  An
\* object is named by its id and a generation number; a new object takes the
\* least generation that no holder of an object with that id uses.
GensIn(recs, gens, id) ==
  {gens[i] : i \in {j \in 1..Len(recs) : recs[j].id = id}}

SingleGens(id) ==
  {singles[k].gen : k \in {j \in 1..Len(singles) : singles[j].patient.id = id}}

FreshGen(used) ==
  CHOOSE n \in 0..Cardinality(used) :
    n \notin used /\ \A m \in 0..(n - 1) : m \in used

\* the object (id, g) with its report written in place
WriteReport(recs, gens, id, g, text, fname) ==
  [i \in 1..Len(recs) |->
     IF recs[i].id = id /\ gens[i] = g
     THEN [recs[i] EXCEPT !.radiologyReportText = text, !.reportFilename = fname]
     ELSE recs[i]]

WriteReportSingles(id, g, text, fname) ==
  [k \in 1..Len(singles) |->
     IF singles[k].patient.id = id /\ singles[k].gen = g
     THEN [singles[k] EXCEPT !.patient.radiologyReportText = text,
                             !.patient.reportFilename = fname]
     ELSE singles[k]]

IdsOf(recs) == {recs[i].id : i \in 1..Len(recs)}

SeqsUpTo(S, n) == UNION {[1..k -> S] : k \in 1..n}

\* ------------------------------------- geminiService.extractDataFromReport
\* A failure inside the try block: what went wrong (kind), its message, its
\* status code (0 when the error has none), and which of the substrings that
\* the code tests for occur in the message.
TransientFailure ==
  [kind |-> "rate limit", message |-> TransientError, status |-> 429,
   has |-> {"429", "quota"}]
PermanentFailure ==
  [kind |-> "auth", message |-> PermanentError, status |-> 403,
   has |-> {"API key"}]
ServiceFailures == {TransientFailure, PermanentFailure}

\* the other failures: quota and overload errors with and without their
\* status code, `throw new Error("No response from AI")`, what JSON.parse
\* throws (its message names the place of the error in the text), a blocked
\* candidate, a network error
QuotaFailure ==
  [kind |-> "rate limit", message |-> "Resource has been exhausted (check quota)",
   status |-> 0, has |-> {"quota", "exhausted"}]
OverloadFailure ==
  [kind |-> "overload", message |-> "The model is overloaded",
   status |-> 503, has |-> {"overloaded"}]
UnavailableFailure ==
  [kind |-> "overload", message |-> "The service is currently unavailable",
   status |-> 0, has |-> {"unavailable"}]
EmptyResponse ==
  [kind |-> "empty", message |-> "No response from AI", status |-> 0, has |-> {}]
ParseFailure ==
  [kind |-> "parse", message |-> "Unexpected token < in JSON at position 0",
   status |-> 0, has |-> {"JSON"}]
ParseFailureAt503 ==
  [kind |-> "parse", message |-> "Unexpected end of JSON input at position 503",
   status |-> 0, has |-> {"JSON", "503"}]
SafetyFailure ==
  [kind |-> "safety", message |-> "Candidate was blocked due to safety",
   status |-> 0, has |-> {"safety", "blocked"}]
GeneralFailure ==
  [kind |-> "general", message |-> "Failed to fetch", status |-> 0, has |-> {}]

AllFailures ==
  ServiceFailures \cup
    {QuotaFailure, OverloadFailure, UnavailableFailure, EmptyResponse,
     ParseFailure, ParseFailureAt503, SafetyFailure, GeneralFailure}

\* isRetryable of the catch block
IsRetryable(error) ==
  \/ "429" \in error.has
  \/ "503" \in error.has
  \/ error.status = 429
  \/ error.status = 503

\* The call up to its first await: the API-key check throws before any
\* request is made, otherwise generateContent is awaited.  requests counts
\* the generateContent requests that the extraction has made.
StartCall(reportText, retries) ==
  IF apiKeyOk
  THEN [phase |-> "call", retries |-> retries, text |-> reportText,
        data |-> Undef, error |-> Undef, requests |-> 1]
  ELSE [phase |-> "err", retries |-> retries, text |-> reportText,
        data |-> Undef, error |-> MissingKeyError, requests |-> 0]

\* generateContent resolved: { ...EMPTY_EXTRACTION, ...parsed } is returned
OnSuccess(c) == [c EXCEPT !.phase = "ok", !.data = ServiceData]

\* mutant: a retryable failure is retried although no attempt is left
OnFailureRetriesForever(c, error) ==
  IF IsRetryable(error)
  THEN [c EXCEPT !.phase = "delay", !.error = error.message]
  ELSE [c EXCEPT !.phase = "err", !.error = error.message]

\* the try block has thrown: the catch block, which waits out the delay with
\* the caught error in hand or throws it
OnFailure(c, error) ==
  IF IsRetryable(error) /\ c.retries > 0
  THEN [c EXCEPT !.phase = "delay", !.error = error.message]
  ELSE [c EXCEPT !.phase = "err", !.error = error.message]

\* delay((4 - retries) * 2000) elapsed: extractDataFromReport(text, retries - 1)
AfterDelay(c) ==
  [StartCall(c.text, c.retries - 1) EXCEPT !.requests = @ + c.requests]

Settled(c) == c.phase \in {"ok", "err"}

\* the service may answer this call with one more 429/503
MayFailAgain(c) == DefaultRetries - c.retries < MaxTransient

\* --------------------------------------------------- App.handleBatchProcess
\* mutant: only PENDING records are queued (ERROR records are never retried)
EligibleOnlyPending(p) ==
  Truthy(p.radiologyReportText) /\ p.extractionStatus = "PENDING"

\* the predicate of patientData.filter
Eligible(p) ==
  /\ Truthy(p.radiologyReportText)
  /\ (p.extractionStatus = "PENDING" \/ p.extractionStatus = "ERROR")

EligibleIdx(recs) == {i \in 1..Len(recs) : Eligible(recs[i])}

RECURSIVE PickIdx(_, _)
\* the elements of seq at the indices idx, in order
PickIdx(seq, idx) ==
  IF idx = {} THEN <<>>
  ELSE LET m == CHOOSE i \in idx : \A j \in idx : i <= j
       IN <<seq[m]>> \o PickIdx(seq, idx \ {m})

Min(a, b) == IF a < b THEN a ELSE b

\* queue.slice(i, i + BATCH_SIZE) as 1-based positions of the queue
ChunkIdx(i, n) == (i + 1)..Min(i + BATCH_SIZE, n)

\* mutant: the runner goes on as soon as one call of the chunk has settled
ChunkDoneWhenAnySettled(cs, i, n) ==
  \E k \in ChunkIdx(i, n) : Settled(cs[k])

\* mutant: a failed item rejects Promise.all, so the loop never goes on
ChunkDoneOnlyIfAllSucceeded(cs, i, n) ==
  \A k \in ChunkIdx(i, n) : cs[k].phase = "ok"

\* Promise.all(promises) has resolved
ChunkDone(cs, i, n) == \A k \in ChunkIdx(i, n) : Settled(cs[k])

\* mutant: a failure also clears extractedData
ApplyResultClearsData(rec, c) ==
  IF c.phase = "ok"
  THEN [rec EXCEPT !.extractedData = c.data, !.extractionStatus = "REVIEWED",
                   !.extractionError = Undef]
  ELSE [rec EXCEPT !.extractedData = Undef, !.extractionStatus = "ERROR",
                   !.extractionError = c.error]

\* mutant: a success leaves the old extractionError in place
ApplyResultKeepsError(rec, c) ==
  IF c.phase = "ok"
  THEN [rec EXCEPT !.extractedData = c.data, !.extractionStatus = "REVIEWED"]
  ELSE [rec EXCEPT !.extractionStatus = "ERROR", !.extractionError = c.error]

\* one result of the bulk update: the success and the failure branch
ApplyResult(rec, c) ==
  IF c.phase = "ok"
  THEN [rec EXCEPT !.extractedData = c.data, !.extractionStatus = "REVIEWED",
                   !.extractionError = Undef]
  ELSE [rec EXCEPT !.extractionStatus = "ERROR", !.extractionError = c.error]

\* generations of the objects with this id held outside the roster
StaleGens(id) ==
  GensIn(localRecords, localGen, id) \cup GensIn(folderUpdated, folderGen, id)
    \cup GensIn(queue, queueGen, id) \cup SingleGens(id)

\* generations of the objects with this id held outside the uploader's list
NonLocalGens(id) ==
  GensIn(patientData, patientGen, id) \cup GensIn(folderUpdated, folderGen, id)
    \cup GensIn(queue, queueGen, id) \cup SingleGens(id)

RECURSIVE BulkUpdateFromSnapshot(_, _, _, _)
\* mutant: a result is applied to the queue's copy of the record, which then
\* replaces the roster record
BulkUpdateFromSnapshot(st, q, cs, ks) ==
  IF ks = {} THEN st
  ELSE LET k == CHOOSE x \in ks : \A y \in ks : x <= y
           idx == FindIndex(st.roster, q[k].id)
           st2 == IF idx # 0
                  THEN [roster |-> [st.roster EXCEPT ![idx] = ApplyResult(q[k], cs[k])],
                        gens |-> [st.gens EXCEPT
                                      ![idx] = FreshGen(StaleGens(q[k].id))]]
                  ELSE st
       IN BulkUpdateFromSnapshot(st2, q, cs, ks \ {k})

\* mutant: the write of a chunk is not applied, the runner goes on without it
BulkUpdateNotApplied(st, q, cs, ks) == st

RECURSIVE BulkUpdate(_, _, _, _)
\* setPatientData(prevData => ...) after a chunk: results.forEach over the
\* positions ks of the queue q; st is [roster, gens]
BulkUpdate(st, q, cs, ks) ==
  IF ks = {} THEN st
  ELSE LET k == CHOOSE x \in ks : \A y \in ks : x <= y
           idx == FindIndex(st.roster, q[k].id)
           st2 == IF idx # 0
                  THEN [roster |-> [st.roster EXCEPT
                                      ![idx] = ApplyResult(st.roster[idx], cs[k])],
                        gens |-> [st.gens EXCEPT
                                      ![idx] = FreshGen(StaleGens(q[k].id))]]
                  ELSE st
       IN BulkUpdate(st2, q, cs, ks \ {k})

\* the calls of the chunk at i, each started with the text its queue object
\* holds at that moment
Dispatch(q, i) ==
  [k \in ChunkIdx(i, Len(q)) |->
     StartCall(q[k].radiologyReportText, DefaultRetries)]

AppendCalls(q, cs, i) ==
  [k \in 1..Min(i + BATCH_SIZE, Len(q)) |->
     IF k <= Len(cs) THEN cs[k] ELSE Dispatch(q, i)[k]]

\* mutant: the reported count is not clamped to the total
NextProgressUnclamped(total, i) == i + BATCH_SIZE

\* setBatchProgress(prev => ({...prev, current: Math.min(prev.total, i + BATCH_SIZE)}))
NextProgress(total, i) == Min(total, i + BATCH_SIZE)

RECURSIVE RunLoop(_)
\* handleBatchProcess from the point where Promise.all of the chunk at b.i has
\* resolved up to its next pending await, or to its end:
\* b is [queue, roster, gens, calls, i, current, log, pc]
RunLoop(b) ==
  LET n == Len(b.queue)
      w == BulkUpdate([roster |-> b.roster, gens |-> b.gens], b.queue, b.calls,
                      ChunkIdx(b.i, n))
      current == NextProgress(n, b.i)
      i2 == b.i + BATCH_SIZE
      written == [b EXCEPT !.roster = w.roster, !.gens = w.gens,
                           !.current = current,
                           !.log = Append(b.log, <<current, n>>),
                           !.i = i2]
  IN IF i2 < n
     THEN LET next == [written EXCEPT !.calls = AppendCalls(b.queue, b.calls, i2)]
          IN IF ChunkDone(next.calls, i2, n) THEN RunLoop(next) ELSE next
     ELSE [written EXCEPT !.pc = "idle"]

\* mutant: the runner reads the roster again and queues the records that
\* have become eligible since the run started
AdvanceRequeues(b) ==
  LET late == {i \in EligibleIdx(b.roster) : b.roster[i].id \notin IdsOf(b.queue)}
      q2 == b.queue \o PickIdx(b.roster, late)
      b2 == [b EXCEPT !.queue = q2,
                      !.queueGen = b.queueGen \o PickIdx(b.gens, late),
                      !.calls = AppendCalls(q2, b.calls, b.i)]
  IN IF ChunkDone(b2.calls, b2.i, Len(q2)) THEN RunLoop(b2) ELSE b2

\* the runner taken as far as it can go with the calls b.calls
Advance(b) ==
  IF ChunkDone(b.calls, b.i, Len(b.queue)) THEN RunLoop(b) ELSE b

\* --------------------------------------------------------- PatientUploader
\* What processRawData makes of one data row: id and name are always set; a
\* column whose header is the name of a MergedRecord key is kept under that
\* key (record[h] = val), so a row may carry report and extraction keys.
CsvExtras ==
  {[text |-> Undef, data |-> Undef, status |-> Undef, err |-> Undef],
   [text |-> "", data |-> Undef, status |-> Undef, err |-> Undef],
   [text |-> "rA", data |-> Undef, status |-> Undef, err |-> Undef],
   [text |-> FileText, data |-> Undef, status |-> Undef, err |-> Undef],
   [text |-> "rA", data |-> "dc", status |-> "REVIEWED", err |-> "ec"]}

ParsedRecs ==
  {MkRec(id, nm, x.text, Undef, x.data, x.status, x.err) :
     id \in Ids, nm \in CsvNames, x \in CsvExtras}

\* the rows uploaded in the application specification: a row without a
\* report column, or with a report
AppRows ==
  {r \in ParsedRecs : /\ r.name = DefaultName
                      /\ r.radiologyReportText \in {Undef, FileText}
                      /\ r.extractedData = Undef}

\* { ...combined[idx], ...newRec }
SpreadRec(a, b) ==
  [id |-> b.id,
   name |-> SpreadKey(a.name, b.name),
   radiologyReportText |-> SpreadKey(a.radiologyReportText, b.radiologyReportText),
   reportFilename |-> SpreadKey(a.reportFilename, b.reportFilename),
   extractedData |-> SpreadKey(a.extractedData, b.extractedData),
   extractionStatus |-> SpreadKey(a.extractionStatus, b.extractionStatus),
   extractionError |-> SpreadKey(a.extractionError, b.extractionError)]

RECURSIVE LocalMerge(_, _)
\* the updater passed to setLocalRecords by processRawData; st is [recs, gens]
LocalMerge(st, records) ==
  IF records = <<>> THEN st
  ELSE LET newRec == Head(records)
           idx == FindIndex(st.recs, newRec.id)
           g == FreshGen(NonLocalGens(newRec.id))
           st2 == IF idx # 0
                  THEN [recs |-> [st.recs EXCEPT ![idx] = SpreadRec(st.recs[idx], newRec)],
                        gens |-> [st.gens EXCEPT ![idx] = g]]
                  ELSE [recs |-> Append(st.recs, newRec),
                        gens |-> Append(st.gens, g)]
       IN LocalMerge(st2, Tail(records))

Unmounted(ss) == [k \in 1..Len(ss) |-> [ss[k] EXCEPT !.mounted = FALSE]]

\* AnalysisView leaves the screen: its state is gone, its pending calls go on
LeaveDetail ==
  /\ avReportText' = ""
  /\ avData' = Undef
  /\ avStatus' = "IDLE"
  /\ singles' = Unmounted(singles)

\* PatientUploader leaves the screen: a pending folder read goes on
LeaveUpload ==
  /\ localRecords' = <<>>
  /\ localGen' = <<>>
  /\ folderMounted' = FALSE

\* setLocalRecords(prev => ...) of processRawData, for the records it built
MergeIntoLocal(records) ==
  /\ view = "UPLOAD"
  /\ LET m == LocalMerge([recs |-> localRecords, gens |-> localGen], records)
     IN /\ localRecords' = m.recs
        /\ localGen' = m.gens
  /\ UNCHANGED <<appVars, runVars, folderVars, avVars, singles, envVars>>

ProcessRawData(records) ==
  /\ MergeIntoLocal(records)
  /\ UNCHANGED reconVars

\* A data row as processRawData sees it: the cell under the identifier
\* header, the first cell, row[0], and the cell under the name header.  Undef
\* stands for a cell that is undefined or null, and for a header that the
\* table lacks; a pasted line gives "" for an empty field.
RawRows ==
  {[idCell |-> Undef, first |-> Undef, nameCell |-> Undef],
   [idCell |-> Undef, first |-> "", nameCell |-> Undef],
   [idCell |-> Undef, first |-> "101", nameCell |-> Undef],
   [idCell |-> "", first |-> "", nameCell |-> Undef],
   [idCell |-> "", first |-> "101", nameCell |-> Undef],
   [idCell |-> "101", first |-> "101", nameCell |-> Undef],
   [idCell |-> "102", first |-> "101", nameCell |-> Undef]}

\* rows of tables whose first column is the identifier column, with and
\* without a name column
NamedRows ==
  {[idCell |-> id, first |-> id, nameCell |-> nm] :
     id \in Ids, nm \in {Undef, "Bob", "Ann"}}

\* id: `Unknown-${idx}`, idx counting the data rows of this table from 0
PlaceholderId(idx) == "Unknown-" \o ToString(idx)

\* record.id of a row: the placeholder, overwritten by String(val) of the
\* identifier cell when that is neither undefined nor null, and by
\* String(row[0]) when the id still starts with 'Unknown-' and row[0] is truthy
RowId(row, idx) ==
  LET mapped == IF row.idCell # Undef THEN row.idCell ELSE PlaceholderId(idx)
  IN IF mapped = PlaceholderId(idx) /\ Truthy(row.first)
     THEN row.first
     ELSE mapped

\* record.name of a row: 'Unknown', overwritten by String(val) of the name
\* cell when that is neither undefined nor null.  age, createdDate, examDate
\* and timeToStudy are set in the same literal and overwritten the same way.
RowName(row) == IF row.nameCell # Undef THEN row.nameCell ELSE DefaultName

\* rows.slice(1).map((row, idx) => record)
RowRecords(rows) ==
  [k \in 1..Len(rows) |->
     MkRec(RowId(rows[k], k - 1), RowName(rows[k]), Undef, Undef, Undef, Undef, Undef)]

\* handleManualProcess / handleFileUpload: the next table is processed
HandleManualProcess ==
  /\ pasteStep < Len(pastedTables)
  /\ MergeIntoLocal(RowRecords(pastedTables[pasteStep + 1]))
  /\ pasteStep' = pasteStep + 1
  /\ UNCHANGED <<reconIncoming, reconPrev, reconStep, logMsg, logType,
                 pastedTables, timeCalc>>

\* PatientUploader.handleClear, confirmed: the preview list is emptied
HandleClear ==
  /\ view = "UPLOAD"
  /\ Len(localRecords) > 0
  /\ localRecords' = <<>>
  /\ localGen' = <<>>
  /\ UNCHANGED <<appVars, runVars, folderVars, avVars, singles, envVars, reconVars>>

\* the new roster's generations: every incoming id names a new object
RosterGensAfter(next, incoming) ==
  [i \in 1..Len(next) |->
     IF next[i].id \in IdsOf(incoming) \/ i > Len(patientGen)
     THEN FreshGen(StaleGens(next[i].id))
     ELSE patientGen[i]]

\* App.handleDataLoaded
HandleDataLoaded(incomingRecords) ==
  LET next == HandleDataLoadedFn(patientData, incomingRecords)
  IN /\ patientData' = next
     /\ patientGen' = RosterGensAfter(next, incomingRecords)
     /\ view' = "LIST"

\* PatientUploader.finalizeUpload, the button "Finish & View Data"
FinalizeUpload ==
  /\ view = "UPLOAD"
  /\ Len(localRecords) > 0
  /\ HandleDataLoaded(localRecords)
  /\ LeaveUpload
  /\ UNCHANGED <<selectedPatientId, runVars, folderPc, folderUpdated, folderGen,
                 folderFiles, avVars, singles, envVars, reconVars>>

\* An uploaded file: its name, the roster ids that occur in the name as
\* substrings (file.name.includes(r.id)), whether it passes the text test,
\* and what file.text() resolves to (an empty file gives "").
Files ==
  {[name |-> "101.txt", has |-> {"101"}, isText |-> TRUE, content |-> FileText],
   [name |-> "102_101.txt", has |-> {"101", "102"}, isText |-> TRUE,
    content |-> FileText],
   [name |-> "misc.txt", has |-> {}, isText |-> TRUE, content |-> FileText],
   [name |-> "101.pdf", has |-> {"101"}, isText |-> FALSE, content |-> FileText],
   [name |-> "101_blank.txt", has |-> {"101"}, isText |-> TRUE, content |-> ""]}

RECURSIVE SkipNonText(_)
\* the loop's `continue` for files that are not text
SkipNonText(files) ==
  IF files = <<>> \/ Head(files).isText THEN files
  ELSE SkipNonText(Tail(files))

\* mutant: the last record whose id occurs in the file name is taken
MatchIndexLast(recs, file) ==
  IF \E i \in 1..Len(recs) : recs[i].id \in file.has
  THEN CHOOSE i \in 1..Len(recs) :
         recs[i].id \in file.has
           /\ \A j \in (i + 1)..Len(recs) : recs[j].id \notin file.has
  ELSE 0

\* updatedRecords.findIndex(r => file.name.includes(r.id) || ...); 0 for -1
MatchIndex(recs, file) ==
  IF \E i \in 1..Len(recs) : recs[i].id \in file.has
  THEN CHOOSE i \in 1..Len(recs) :
         recs[i].id \in file.has /\ \A j \in 1..(i - 1) : recs[j].id \notin file.has
  ELSE 0

\* handleFolderUpload up to its first await file.text().  One folder read is
\* followed at a time.
HandleFolderUpload(files) ==
  /\ view = "UPLOAD"
  /\ folderPc = "idle"
  /\ Len(localRecords) > 0
  /\ SkipNonText(files) # <<>>
  /\ folderPc' = "reading"
  /\ folderFiles' = SkipNonText(files)
  /\ folderUpdated' = localRecords
  /\ folderGen' = localGen
  /\ folderMounted' = TRUE
  /\ UNCHANGED <<appVars, runVars, upVars, avVars, singles, envVars, reconVars>>

\* handleFolderUpload from a resolved file.text() to the next one, or to
\* setLocalRecords(updatedRecords).  The matched record object is written in
\* place, so every array and closure that holds this object sees the report.
FolderFileRead ==
  /\ folderPc = "reading"
  /\ LET file == Head(folderFiles)
         m == MatchIndex(folderUpdated, file)
         id == IF m = 0 THEN Undef ELSE folderUpdated[m].id
         g == IF m = 0 THEN 0 ELSE folderGen[m]
         W(recs, gens) == IF m = 0 THEN recs
                          ELSE WriteReport(recs, gens, id, g, file.content, file.name)
         rest == SkipNonText(Tail(folderFiles))
         done == rest = <<>>
     IN /\ patientData' = W(patientData, patientGen)
        /\ queue' = W(queue, queueGen)
        /\ singles' = IF m = 0 THEN singles
                      ELSE WriteReportSingles(id, g, file.content, file.name)
        /\ IF done
           THEN /\ folderPc' = "idle"
                /\ folderUpdated' = <<>>
                /\ folderGen' = <<>>
                /\ folderFiles' = <<>>
                /\ folderMounted' = FALSE
                /\ IF folderMounted
                   THEN /\ localRecords' = W(folderUpdated, folderGen)
                        /\ localGen' = folderGen
                   ELSE /\ localRecords' = W(localRecords, localGen)
                        /\ localGen' = localGen
           ELSE /\ folderPc' = "reading"
                /\ folderUpdated' = W(folderUpdated, folderGen)
                /\ folderFiles' = rest
                /\ localRecords' = W(localRecords, localGen)
                /\ UNCHANGED <<folderGen, folderMounted, localGen>>
  /\ UNCHANGED <<patientGen, view, selectedPatientId, isBatchProcessing,
                 batchProgress, batchPc, queueGen, batchI, calls, progressLog,
                 avVars, envVars, reconVars>>

\* the tables uploaded in the application specification: one row, or rows
\* that all name the same id
AppTables ==
  {t \in SeqsUpTo(AppRows, MaxRows) : \A i \in 1..Len(t) : t[i].id = t[1].id}

\* ------------------------------------------------------------ App: views
\* header button "Import / Add Data": PatientUploader mounts with
\* existingData = patientData
ShowUpload ==
  /\ Len(patientData) > 0
  /\ ~isBatchProcessing
  /\ view # "UPLOAD"
  /\ view' = "UPLOAD"
  /\ localRecords' = patientData
  /\ localGen' = patientGen
  /\ LeaveDetail
  /\ UNCHANGED <<patientData, patientGen, selectedPatientId, runVars,
                 folderVars, envVars, reconVars>>

\* header button "Data Sheet", "Cancel and return to list", "Back to List"
ShowList ==
  /\ \/ Len(patientData) > 0 /\ ~isBatchProcessing
     \/ view = "UPLOAD" /\ Len(patientData) > 0
     \/ view = "DETAIL"
  /\ view # "LIST"
  /\ view' = "LIST"
  /\ LeaveDetail
  /\ LeaveUpload
  /\ UNCHANGED <<patientData, patientGen, selectedPatientId, runVars, folderPc,
                 folderUpdated, folderGen, folderFiles, envVars, reconVars>>

\* App.handleSelectPatient: AnalysisView mounts on the selected record
HandleSelectPatient(id) ==
  /\ view = "LIST"
  /\ ~isBatchProcessing
  /\ id \in IdsOf(patientData)
  /\ selectedPatientId' = id
  /\ view' = "DETAIL"
  /\ LET patient == patientData[FindIndex(patientData, id)]
     IN /\ avReportText' = JsOr(patient.radiologyReportText, "")
        /\ avData' = patient.extractedData
        /\ avStatus' = "IDLE"
  /\ UNCHANGED <<patientData, patientGen, runVars, upVars, folderVars, singles,
                 envVars, reconVars>>

\* --------------------------------------------------- App.handleUpdatePatient
\* prev.map(p => p.id === updated.id ? updated : p)
HandleUpdatePatientFn(prev, updated) ==
  [i \in 1..Len(prev) |-> IF prev[i].id = updated.id THEN updated ELSE prev[i]]

HandleUpdatePatient(updated) ==
  /\ patientData' = HandleUpdatePatientFn(patientData, updated)
  /\ patientGen' = [i \in 1..Len(patientData) |->
                      IF patientData[i].id = updated.id
                      THEN FreshGen(StaleGens(updated.id))
                      ELSE patientGen[i]]

\* ------------------------------------------------------------ AnalysisView
\* mutant: the write-back of a successful extraction forgets the status
ExtractedUpdateKeepsStatus(patient, textToProcess, result) ==
  [patient EXCEPT !.radiologyReportText = textToProcess,
                  !.extractedData = result]

\* handleExtract: { ...patient, radiologyReportText, extractedData,
\* extractionStatus: 'REVIEWED' }
ExtractedUpdate(patient, textToProcess, result) ==
  [patient EXCEPT !.radiologyReportText = textToProcess,
                  !.extractedData = result,
                  !.extractionStatus = "REVIEWED"]

\* the prop patient={patientData.find(p => p.id === selectedPatientId)!}
PatientIdx == FindIndex(patientData, selectedPatientId)

SetReportText(t) ==
  /\ view = "DETAIL"
  /\ avReportText' = t
  /\ UNCHANGED <<appVars, runVars, upVars, folderVars, avData, avStatus,
                 singles, envVars, reconVars>>

\* handleExtract up to its await.  Without an API key the call throws at
\* once and the catch block runs with no request made.
HandleExtract(textToProcess, shownText) ==
  /\ view = "DETAIL"
  /\ Truthy(textToProcess)
  /\ Len(singles) < MaxSingles
  /\ avReportText' = shownText
  /\ LET c == StartCall(textToProcess, DefaultRetries)
     IN IF c.phase = "err"
        THEN /\ avStatus' = "ERROR"
             /\ UNCHANGED singles
        ELSE /\ avStatus' = "LOADING"
             /\ singles' = Append(singles,
                  [patient |-> patientData[PatientIdx],
                   gen |-> patientGen[PatientIdx],
                   textToProcess |-> textToProcess,
                   call |-> c,
                   mounted |-> TRUE])
  /\ UNCHANGED <<appVars, runVars, upVars, folderVars, avData, envVars, reconVars>>

\* the button "Extract Data" / "Re-analyze"
ClickExtract ==
  /\ avStatus # "LOADING"
  /\ HandleExtract(avReportText, avReportText)

\* handlePaste: a long text pasted into a nearly empty text area
PasteReport ==
  /\ IsShort(avReportText)
  /\ HandleExtract(FileText, FileText)

RemoveAt(seq, k) == [i \in 1..(Len(seq) - 1) |-> IF i < k THEN seq[i] ELSE seq[i + 1]]

\* a call of handleExtract has settled: the rest of the try or catch block
SingleSettled(k, c) ==
  LET s == singles[k]
  IN /\ singles' = RemoveAt(singles, k)
     /\ IF c.phase = "ok"
        THEN /\ HandleUpdatePatient(ExtractedUpdate(s.patient, s.textToProcess, c.data))
             /\ avData' = IF s.mounted THEN c.data ELSE avData
             /\ avStatus' = IF s.mounted THEN "SUCCESS" ELSE avStatus
        ELSE /\ avStatus' = IF s.mounted THEN "ERROR" ELSE avStatus
             /\ UNCHANGED <<patientData, patientGen, avData>>

SingleStep(k, c) ==
  IF Settled(c)
  THEN SingleSettled(k, c)
  ELSE /\ singles' = [singles EXCEPT ![k].call = c]
       /\ UNCHANGED <<patientData, patientGen, avData, avStatus>>

SingleRespondOk(k) ==
  /\ k \in 1..Len(singles)
  /\ singles[k].call.phase = "call"
  /\ SingleStep(k, OnSuccess(singles[k].call))
  /\ UNCHANGED <<view, selectedPatientId, runVars, upVars, folderVars,
                 avReportText, envVars, reconVars>>

SingleRespondFail(k, error) ==
  /\ k \in 1..Len(singles)
  /\ singles[k].call.phase = "call"
  /\ IsRetryable(error) => MayFailAgain(singles[k].call)
  /\ SingleStep(k, OnFailure(singles[k].call, error))
  /\ UNCHANGED <<view, selectedPatientId, runVars, upVars, folderVars,
                 avReportText, envVars, reconVars>>

SingleDelayElapsed(k) ==
  /\ k \in 1..Len(singles)
  /\ singles[k].call.phase = "delay"
  /\ SingleStep(k, AfterDelay(singles[k].call))
  /\ UNCHANGED <<view, selectedPatientId, runVars, upVars, folderVars,
                 avReportText, envVars, reconVars>>

\* mutant: a manual edit leaves the status as it was
EditedUpdateKeepsStatus(patient, reportText, newData) ==
  [patient EXCEPT !.radiologyReportText = reportText,
                  !.extractedData = newData]

\* handleFieldChange: { ...patient, radiologyReportText: reportText,
\* extractedData: newData, extractionStatus: 'REVIEWED' }
EditedUpdate(patient, reportText, newData) ==
  [patient EXCEPT !.radiologyReportText = reportText,
                  !.extractedData = newData,
                  !.extractionStatus = "REVIEWED"]

HandleFieldChange ==
  /\ view = "DETAIL"
  /\ avData # Undef
  /\ avData' = EditedData
  /\ HandleUpdatePatient(EditedUpdate(patientData[PatientIdx], avReportText, EditedData))
  /\ UNCHANGED <<view, selectedPatientId, runVars, upVars, folderVars,
                 avReportText, avStatus, singles, envVars, reconVars>>

\* ------------------------------------------- App.handleBatchProcess, steps
\* pendingCount + errorCount of the render: the batch bar is shown when > 0
ReadyToRunCount ==
  Cardinality({i \in 1..Len(patientData) :
                 /\ Truthy(patientData[i].radiologyReportText)
                 /\ patientData[i].extractionStatus = "PENDING"})
  + Cardinality({i \in 1..Len(patientData) :
                   patientData[i].extractionStatus = "ERROR"})

\* the runner's variables after it has gone as far as b; b.processing is the
\* flag as it stands, which only the end of the loop or a stop request clears
SetRun(b) ==
  /\ patientData' = b.roster
  /\ patientGen' = b.gens
  /\ batchPc' = b.pc
  /\ isBatchProcessing' = (b.pc = "running" /\ b.processing)
  /\ batchProgress' = [current |-> b.current, total |-> Len(b.queue)]
  /\ progressLog' = b.log
  /\ queue' = IF b.pc = "running" THEN b.queue ELSE <<>>
  /\ queueGen' = IF b.pc = "running" THEN b.queueGen ELSE <<>>
  /\ batchI' = IF b.pc = "running" THEN b.i ELSE 0
  /\ calls' = IF b.pc = "running" THEN b.calls ELSE <<>>

\* the button "Run Batch Analysis" / "Retry Batch" (disabled while a batch is
\* processing): handleBatchProcess up to its first pending await
HandleBatchProcess ==
  /\ view = "LIST"
  /\ ReadyToRunCount > 0
  /\ ~isBatchProcessing
  /\ batchPc = "idle"
  /\ LET idx == EligibleIdx(patientData)
         q == PickIdx(patientData, idx)
     IN IF q = <<>>
        THEN UNCHANGED <<patientData, patientGen, runVars>>
        ELSE SetRun(Advance([queue |-> q,
                             queueGen |-> PickIdx(patientGen, idx),
                             roster |-> patientData,
                             gens |-> patientGen,
                             calls |-> AppendCalls(q, <<>>, 0),
                             i |-> 0,
                             current |-> 0,
                             log |-> << <<0, Len(q)>> >>,
                             processing |-> TRUE,
                             pc |-> "running"]))
  /\ UNCHANGED <<view, selectedPatientId, upVars, folderVars, avVars, singles,
                 envVars, reconVars>>

\* handleBatchProcess invoked while isBatchProcessing is true: the branch that
\* requests the stop.  It clears the flag and returns; the running loop never
\* reads the flag.
HandleBatchProcessStop ==
  /\ view = "LIST"
  /\ isBatchProcessing
  /\ isBatchProcessing' = FALSE
  /\ UNCHANGED <<appVars, batchProgress, batchPc, queue, queueGen, batchI, calls,
                 progressLog, upVars, folderVars, avVars, singles, envVars,
                 reconVars>>

\* the runner resumed after call k of the current chunk changed to c
BatchStep(k, c) ==
  SetRun(Advance([queue |-> queue,
                  queueGen |-> queueGen,
                  roster |-> patientData,
                  gens |-> patientGen,
                  calls |-> [calls EXCEPT ![k] = c],
                  i |-> batchI,
                  current |-> batchProgress.current,
                  log |-> progressLog,
                  processing |-> isBatchProcessing,
                  pc |-> "running"]))

BatchRespondOk(k) ==
  /\ batchPc = "running"
  /\ k \in 1..Len(calls)
  /\ calls[k].phase = "call"
  /\ BatchStep(k, OnSuccess(calls[k]))
  /\ UNCHANGED <<view, selectedPatientId, upVars, folderVars, avVars, singles,
                 envVars, reconVars>>

\* the request of call k fails, however often it has failed before
BatchFail(k, error) ==
  /\ batchPc = "running"
  /\ k \in 1..Len(calls)
  /\ calls[k].phase = "call"
  /\ BatchStep(k, OnFailure(calls[k], error))
  /\ UNCHANGED <<view, selectedPatientId, upVars, folderVars, avVars, singles,
                 envVars, reconVars>>

\* the request of call k fails, a retryable failure at most MaxTransient times
BatchRespondFail(k, error) ==
  /\ k \in 1..Len(calls)
  /\ IsRetryable(error) => MayFailAgain(calls[k])
  /\ BatchFail(k, error)

BatchDelayElapsed(k) ==
  /\ batchPc = "running"
  /\ k \in 1..Len(calls)
  /\ calls[k].phase = "delay"
  /\ BatchStep(k, AfterDelay(calls[k]))
  /\ UNCHANGED <<view, selectedPatientId, upVars, folderVars, avVars, singles,
                 envVars, reconVars>>

\* ----------------------------------------------------- the application
Init ==
  /\ patientData = <<>>
  /\ patientGen = <<>>
  /\ view = "UPLOAD"
  /\ selectedPatientId = Undef
  /\ isBatchProcessing = FALSE
  /\ batchProgress = [current |-> 0, total |-> 0]
  /\ localRecords = <<>>
  /\ localGen = <<>>
  /\ folderPc = "idle"
  /\ folderUpdated = <<>>
  /\ folderGen = <<>>
  /\ folderFiles = <<>>
  /\ folderMounted = FALSE
  /\ avReportText = ""
  /\ avData = Undef
  /\ avStatus = "IDLE"
  /\ singles = <<>>
  /\ batchPc = "idle"
  /\ queue = <<>>
  /\ queueGen = <<>>
  /\ batchI = 0
  /\ calls = <<>>
  /\ progressLog = <<>>
  /\ apiKeyOk \in BOOLEAN
  /\ reconIncoming = <<>>
  /\ reconPrev = <<>>
  /\ reconStep = 0
  /\ logMsg = {}
  /\ logType = Undef
  /\ timeCalc = NoCalc
  /\ pastedTables = <<>>
  /\ pasteStep = 0

Next ==
  \/ \E rows \in AppTables : ProcessRawData(rows)
  \/ FinalizeUpload
  \/ ShowUpload
  \/ ShowList
  \/ \E id \in Ids : HandleSelectPatient(id)
  \/ \E t \in TypedTexts : SetReportText(t)
  \/ ClickExtract
  \/ PasteReport
  \/ \E k \in 1..MaxSingles + 1 : SingleRespondOk(k)
  \/ \E k \in 1..MaxSingles + 1 : SingleRespondFail(k, PermanentFailure)
  \/ HandleFieldChange
  \/ HandleBatchProcess
  \/ \E k \in 1..Cardinality(Ids) : BatchRespondOk(k)
  \/ \E k \in 1..Cardinality(Ids) : BatchRespondFail(k, PermanentFailure)

\* The application: table uploads, imports, the list, the detail view and
\* batch runs on a roster of up to two records; the service answers or fails
\* for good.  Folder uploads and the clearing of the preview list are left to
\* SpecUpload, retried calls to SpecBatch.
Spec == Init /\ [][Next]_vars

\* ------------------------------------------------------ one batch run
\* A roster of n records as uploads and earlier runs leave it: every record
\* has a report and is PENDING, except the one at position Min(2, n), which
\* is as `shape` says.
BatchRecord(k, shape) ==
  LET id == ToString(100 + k)
  IN CASE shape = "PENDING" -> MkRec(id, DefaultName, FileText, Undef, Undef, "PENDING", Undef)
       [] shape = "ERROR" -> MkRec(id, DefaultName, FileText, Undef, Undef, "ERROR", PermanentError)
       [] shape = "REVIEWED" -> MkRec(id, DefaultName, FileText, Undef, ServiceData, "REVIEWED", Undef)
       [] shape = "NOTEXT" -> MkRec(id, DefaultName, Undef, Undef, Undef, "PENDING", Undef)

BatchShapes == {"PENDING", "ERROR", "REVIEWED", "NOTEXT"}

BatchRoster(n, shape) ==
  [k \in 1..n |-> BatchRecord(k, IF k = Min(2, n) THEN shape ELSE "PENDING")]

\* a handleExtract call for the record p whose AnalysisView has been left
LeftoverSingle(p) ==
  [patient |-> p, gen |-> 0, textToProcess |-> p.radiologyReportText,
   call |-> [phase |-> "call", retries |-> DefaultRetries,
             text |-> p.radiologyReportText, data |-> Undef, error |-> Undef,
             requests |-> 1],
   mounted |-> FALSE]

InitBatch ==
  /\ apiKeyOk \in BOOLEAN
  /\ \E n \in 1..MaxQueue, shape \in BatchShapes :
       /\ patientData = BatchRoster(n, shape)
       /\ patientGen = [k \in 1..n |-> 0]
       /\ singles \in {<<>>} \cup
            {<<LeftoverSingle(patientData[1])>> :
               x \in {y \in {1} : apiKeyOk /\ Truthy(patientData[1].radiologyReportText)}}
  /\ view = "LIST"
  /\ selectedPatientId = Undef
  /\ isBatchProcessing = FALSE
  /\ batchProgress = [current |-> 0, total |-> 0]
  /\ localRecords = <<>>
  /\ localGen = <<>>
  /\ folderPc = "idle"
  /\ folderUpdated = <<>>
  /\ folderGen = <<>>
  /\ folderFiles = <<>>
  /\ folderMounted = FALSE
  /\ avReportText = ""
  /\ avData = Undef
  /\ avStatus = "IDLE"
  /\ batchPc = "idle"
  /\ queue = <<>>
  /\ queueGen = <<>>
  /\ batchI = 0
  /\ calls = <<>>
  /\ progressLog = <<>>
  /\ reconIncoming = <<>>
  /\ reconPrev = <<>>
  /\ reconStep = 0
  /\ logMsg = {}
  /\ logType = Undef
  /\ timeCalc = NoCalc
  /\ pastedTables = <<>>
  /\ pasteStep = 0

\* the first click on the batch button
FirstBatchProcess ==
  /\ progressLog = <<>>
  /\ HandleBatchProcess

NextBatch ==
  \/ FirstBatchProcess
  \/ \E k \in 1..MaxQueue : BatchRespondOk(k)
  \/ \E k \in 1..MaxQueue, e \in ServiceFailures : BatchRespondFail(k, e)
  \/ \E k \in 1..MaxQueue : BatchDelayElapsed(k)
  \/ SingleRespondOk(1)
  \/ \E e \in ServiceFailures : SingleRespondFail(1, e)
  \/ SingleDelayElapsed(1)

\* One batch run on a roster of up to MaxQueue records, with retried calls
\* and possibly an AnalysisView extraction still in flight.
SpecBatch == InitBatch /\ [][NextBatch]_vars

\* ------------------------------------------- the retrying extraction client
\* rosters of PENDING records with reports
InitRetry ==
  /\ InitBatch
  /\ singles = <<>>
  /\ Len(patientData) <= MaxRetryQueue
  /\ \A i \in 1..Len(patientData) :
       Eligible(patientData[i]) /\ patientData[i].extractionStatus = "PENDING"

NextRetry ==
  \/ FirstBatchProcess
  \/ \E k \in 1..MaxRetryQueue : BatchRespondOk(k)
  \/ \E k \in 1..MaxRetryQueue, e \in AllFailures : BatchFail(k, e)
  \/ \E k \in 1..MaxRetryQueue : BatchDelayElapsed(k)

\* One batch run on one or two records whose requests may fail in every way,
\* and as often as the service pleases.
SpecRetry == InitRetry /\ [][NextRetry]_vars

\* --------------------------------------- a batch run whose calls all settle
InitRun ==
  /\ InitBatch
  /\ singles = <<>>

NextRun ==
  \/ FirstBatchProcess
  \/ HandleBatchProcessStop
  \/ \E k \in 1..MaxQueue : BatchRespondOk(k)
  \/ \E k \in 1..MaxQueue : BatchRespondFail(k, PermanentFailure)

\* One batch run that the service answers or fails for good, and during
\* which handleBatchProcess may be invoked again.  Nothing obliges the
\* service to answer: a property that needs answers says so itself.
SpecRun == InitRun /\ [][NextRun]_vars

\* ------------------------------------------------- handleDataLoaded alone
\* Records of a roster as uploads, extractions and failed runs leave them.
RosterShapes ==
  {[text |-> Undef, fname |-> Undef, data |-> Undef, status |-> "PENDING", err |-> Undef],
   [text |-> FileText, fname |-> "101.txt", data |-> ServiceData, status |-> "REVIEWED", err |-> Undef],
   [text |-> FileText, fname |-> Undef, data |-> Undef, status |-> "ERROR", err |-> PermanentError]}

RosterRecs ==
  {MkRec(id, DefaultName, x.text, x.fname, x.data, x.status, x.err) :
     id \in Ids, x \in RosterShapes}

Rosters ==
  {r \in {<<>>} \cup SeqsUpTo(RosterRecs, Cardinality(Ids)) :
     \A i, j \in 1..Len(r) : r[i].id = r[j].id => i = j}

\* What finalizeUpload may pass: parsed rows, and rows that a folder upload
\* has given a report and a file name.  The name varies on plain rows only.
IncomingRecs ==
  {r \in ParsedRecs : r.name = DefaultName \/ r.radiologyReportText = Undef}
    \cup {MkRec(id, DefaultName, FileText, "102_101.txt", Undef, Undef, Undef) : id \in Ids}

InitReconcile ==
  /\ patientData \in Rosters
  /\ patientGen = [i \in 1..Len(patientData) |-> 0]
  /\ reconIncoming \in SeqsUpTo(IncomingRecs, MaxRows)
  /\ reconPrev = <<>>
  /\ reconStep = 0
  /\ view = "UPLOAD"
  /\ selectedPatientId = Undef
  /\ isBatchProcessing = FALSE
  /\ batchProgress = [current |-> 0, total |-> 0]
  /\ localRecords = <<>>
  /\ localGen = <<>>
  /\ folderPc = "idle"
  /\ folderUpdated = <<>>
  /\ folderGen = <<>>
  /\ folderFiles = <<>>
  /\ folderMounted = FALSE
  /\ avReportText = ""
  /\ avData = Undef
  /\ avStatus = "IDLE"
  /\ singles = <<>>
  /\ batchPc = "idle"
  /\ queue = <<>>
  /\ queueGen = <<>>
  /\ batchI = 0
  /\ calls = <<>>
  /\ progressLog = <<>>
  /\ apiKeyOk = TRUE
  /\ logMsg = {}
  /\ logType = Undef
  /\ timeCalc = NoCalc
  /\ pastedTables = <<>>
  /\ pasteStep = 0

\* onDataLoaded(reconIncoming): the first call, then the same call again
Reconcile ==
  /\ reconStep < 2
  /\ HandleDataLoaded(reconIncoming)
  /\ reconPrev' = Append(reconPrev, patientData)
  /\ reconStep' = reconStep + 1
  /\ UNCHANGED <<reconIncoming, selectedPatientId, runVars, upVars, folderVars,
                 avVars, singles, envVars, logMsg, logType, pastedTables,
                 pasteStep, timeCalc>>

NextReconcile == Reconcile

\* handleDataLoaded applied to every small roster and batch, twice over
SpecReconcile == InitReconcile /\ [][NextReconcile]_vars

\* ------------------------------------------------- ErrorLog.getErrorType
\* A message is known by the substrings it contains among those that
\* getErrorType looks for in msg.toLowerCase(), and "unavailable".
LogTokens ==
  {"429", "quota", "exhausted",
   "503", "overloaded", "service unavailable", "unavailable",
   "api key", "permission", "403",
   "json", "syntax", "parse",
   "candidate", "safety", "blocked"}

LogMessages ==
  {m \in SUBSET LogTokens :
     /\ Cardinality(m) <= MaxTokens
     /\ "service unavailable" \in m => "unavailable" \in m}

\* getErrorType(msg).type
GetErrorType(m) ==
  IF "429" \in m \/ "quota" \in m \/ "exhausted" \in m
    THEN "Rate Limit / Quota"
  ELSE IF "503" \in m \/ "overloaded" \in m \/ "service unavailable" \in m
    THEN "Server Overload"
  ELSE IF "api key" \in m \/ "permission" \in m \/ "403" \in m
    THEN "Auth / Permission"
  ELSE IF "json" \in m \/ "syntax" \in m \/ "parse" \in m
    THEN "Response Parse Error"
  ELSE IF "candidate" \in m \/ "safety" \in m \/ "blocked" \in m
    THEN "Content Safety Block"
  ELSE "General Error"

\* the row of a failed record is rendered: getErrorType(p.extractionError)
RenderErrorRow ==
  /\ logType = Undef
  /\ logType' = GetErrorType(logMsg)
  /\ UNCHANGED <<appVars, runVars, upVars, folderVars, avVars, singles, envVars,
                 reconIncoming, reconPrev, reconStep, logMsg, pastedTables,
                 pasteStep, timeCalc>>

InitClassify ==
  /\ logMsg \in LogMessages
  /\ logType = Undef
  /\ timeCalc = NoCalc
  /\ patientData = <<>>
  /\ patientGen = <<>>
  /\ view = "LIST"
  /\ selectedPatientId = Undef
  /\ isBatchProcessing = FALSE
  /\ batchProgress = [current |-> 0, total |-> 0]
  /\ localRecords = <<>>
  /\ localGen = <<>>
  /\ folderPc = "idle"
  /\ folderUpdated = <<>>
  /\ folderGen = <<>>
  /\ folderFiles = <<>>
  /\ folderMounted = FALSE
  /\ avReportText = ""
  /\ avData = Undef
  /\ avStatus = "IDLE"
  /\ singles = <<>>
  /\ batchPc = "idle"
  /\ queue = <<>>
  /\ queueGen = <<>>
  /\ batchI = 0
  /\ calls = <<>>
  /\ progressLog = <<>>
  /\ apiKeyOk = TRUE
  /\ reconIncoming = <<>>
  /\ reconPrev = <<>>
  /\ reconStep = 0
  /\ pastedTables = <<>>
  /\ pasteStep = 0

NextClassify == RenderErrorRow

\* getErrorType applied to every message of up to MaxTokens telltale words
SpecClassify == InitClassify /\ [][NextClassify]_vars

\* ------------------------------------------------ uploads and attachments
\* the files uploaded in the uploader specification: a report and a scan
UploadFiles == {f \in Files : f.name \in {"101.txt", "101.pdf"}}

NextUpload ==
  \/ \E r \in AppRows : ProcessRawData(<<r>>)
  \/ HandleClear
  \/ \E f \in UploadFiles : HandleFolderUpload(<<f>>)
  \/ FolderFileRead
  \/ FinalizeUpload
  \/ ShowUpload
  \/ ShowList

\* The uploader alone: tables, folder uploads whose file reads overlap with
\* everything else, and imports into the roster.
SpecUpload == Init /\ [][NextUpload]_vars

\* ------------------------------------------------------ imports of tables
RawTables == SeqsUpTo(RawRows, MaxRows)

InitImport ==
  /\ pastedTables \in SeqsUpTo(RawTables, MaxPastes)
  /\ pasteStep = 0
  /\ patientData = <<>>
  /\ patientGen = <<>>
  /\ view = "UPLOAD"
  /\ selectedPatientId = Undef
  /\ isBatchProcessing = FALSE
  /\ batchProgress = [current |-> 0, total |-> 0]
  /\ localRecords = <<>>
  /\ localGen = <<>>
  /\ folderPc = "idle"
  /\ folderUpdated = <<>>
  /\ folderGen = <<>>
  /\ folderFiles = <<>>
  /\ folderMounted = FALSE
  /\ avReportText = ""
  /\ avData = Undef
  /\ avStatus = "IDLE"
  /\ singles = <<>>
  /\ batchPc = "idle"
  /\ queue = <<>>
  /\ queueGen = <<>>
  /\ batchI = 0
  /\ calls = <<>>
  /\ progressLog = <<>>
  /\ apiKeyOk = TRUE
  /\ reconIncoming = <<>>
  /\ reconPrev = <<>>
  /\ reconStep = 0
  /\ logMsg = {}
  /\ logType = Undef
  /\ timeCalc = NoCalc

NextImport ==
  \/ HandleManualProcess
  \/ FinalizeUpload
  \/ ShowUpload

\* Up to MaxPastes tables of up to MaxRows rows are processed and imported,
\* in one visit of the uploader or in several; no visit is abandoned.
SpecImport == InitImport /\ [][NextImport]_vars

\* ------------------------------------- the roster changes during a run
\* rows imported while a run is under way: a row for the second record and a
\* row for a record that no roster of the run specifications holds
SnapshotRows ==
  {MkRec(id, "Bob", FileText, Undef, Undef, Undef, Undef) : id \in {"102", "107"}}

\* rosters of two and of MaxQueue records, the second one with or without
\* its report
InitSnapshot ==
  /\ InitRun
  /\ apiKeyOk
  /\ Len(patientData) \in {2, MaxQueue}
  /\ patientData[2].extractionStatus = "PENDING"

NextSnapshot ==
  \/ FirstBatchProcess
  \/ HandleBatchProcessStop
  \/ \E k \in 1..MaxQueue : BatchRespondOk(k)
  \/ BatchRespondFail(1, PermanentFailure)
  \/ ShowUpload
  \/ \E r \in SnapshotRows : ProcessRawData(<<r>>)
  \/ FinalizeUpload

\* One batch run, before and during which records are imported: the
\* uploader is opened before the run, or during it once handleBatchProcess
\* has been invoked again.  The service answers, or fails the first item.
SpecSnapshot == InitSnapshot /\ [][NextSnapshot]_vars

\* ------------------------------- an import while an extraction is pending
\* rows of a table with a name column and no report column
WriteBackRows ==
  {MkRec(id, "Bob", Undef, Undef, Undef, Undef, Undef) : id \in Ids}

\* the list is shown on a roster that imports, extractions and failed runs
\* have left
InitWriteBack ==
  /\ patientData \in Rosters \ {<<>>}
  /\ patientGen = [i \in 1..Len(patientData) |-> 0]
  /\ view = "LIST"
  /\ selectedPatientId = Undef
  /\ isBatchProcessing = FALSE
  /\ batchProgress = [current |-> 0, total |-> 0]
  /\ localRecords = <<>>
  /\ localGen = <<>>
  /\ folderPc = "idle"
  /\ folderUpdated = <<>>
  /\ folderGen = <<>>
  /\ folderFiles = <<>>
  /\ folderMounted = FALSE
  /\ avReportText = ""
  /\ avData = Undef
  /\ avStatus = "IDLE"
  /\ singles = <<>>
  /\ batchPc = "idle"
  /\ queue = <<>>
  /\ queueGen = <<>>
  /\ batchI = 0
  /\ calls = <<>>
  /\ progressLog = <<>>
  /\ apiKeyOk = TRUE
  /\ reconIncoming = <<>>
  /\ reconPrev = <<>>
  /\ reconStep = 0
  /\ logMsg = {}
  /\ logType = Undef
  /\ timeCalc = NoCalc
  /\ pastedTables = <<>>
  /\ pasteStep = 0

NextWriteBack ==
  \/ \E id \in Ids : HandleSelectPatient(id)
  \/ ClickExtract
  \/ PasteReport
  \/ SingleRespondOk(1)
  \/ SingleRespondFail(1, PermanentFailure)
  \/ ShowUpload
  \/ \E r \in WriteBackRows : ProcessRawData(<<r>>)
  \/ FinalizeUpload
  \/ ShowList

\* A record is opened and extracted; while the call is pending the user may
\* go to the uploader and import a table that names the record.
SpecWriteBack == InitWriteBack /\ [][NextWriteBack]_vars

\* --------------------------------------------------- calculateTimeToStudy
\* An argument of calculateTimeToStudy: falsy (undefined, null, ''), or a
\* value that new Date() cannot parse (getTime() is NaN), or an instant with
\* its time value in milliseconds.
MissingInput == [falsy |-> TRUE, valid |-> FALSE, time |-> 0]
UnparseableInput == [falsy |-> FALSE, valid |-> FALSE, time |-> 0]
InstantInput(t) == [falsy |-> FALSE, valid |-> TRUE, time |-> t]

\* time values in milliseconds after midnight: 00:00, 00:00:59.999, 00:01,
\* 08:00, 08:59:59.999, 09:00, 10:30, and 01:01 of the next day
Instants ==
  {0, 59999, 60000, 28800000, 32399999, 32400000, 37800000, 90060000}

TimeInputs == {MissingInput, UnparseableInput} \cup {InstantInput(t) : t \in Instants}

\* mutant: the difference is formatted whatever its sign
CalculateTimeToStudyUnchecked(startInput, endInput) ==
  IF startInput.falsy \/ endInput.falsy THEN ""
  ELSE IF ~startInput.valid \/ ~endInput.valid THEN ""
  ELSE LET diffMs == endInput.time - startInput.time
           totalMinutes == diffMs \div (1000 * 60)
           hours == totalMinutes \div 60
           minutes == totalMinutes % 60
       IN ToString(hours) \o "h " \o ToString(minutes) \o "m"

\* calculateTimeToStudy(startInput, endInput)
CalculateTimeToStudy(startInput, endInput) ==
  IF startInput.falsy \/ endInput.falsy THEN ""
  ELSE IF ~startInput.valid \/ ~endInput.valid THEN ""
  ELSE LET diffMs == endInput.time - startInput.time
       IN IF diffMs < 0 THEN "Error"
          ELSE LET totalMinutes == diffMs \div (1000 * 60)
                   hours == totalMinutes \div 60
                   minutes == totalMinutes % 60
               IN ToString(hours) \o "h " \o ToString(minutes) \o "m"

\* processRawData computes the time to study of a row from its created stamp
\* and its done stamp
ComputeTimeToStudy ==
  /\ timeCalc.result = Undef
  /\ timeCalc' = [timeCalc EXCEPT
                    !.result = CalculateTimeToStudy(timeCalc.start, timeCalc.end)]
  /\ UNCHANGED <<appVars, runVars, upVars, folderVars, avVars, singles, envVars,
                 reconIncoming, reconPrev, reconStep, logMsg, logType,
                 pastedTables, pasteStep>>

InitTime ==
  /\ timeCalc \in [start : TimeInputs, end : TimeInputs, result : {Undef}]
  /\ patientData = <<>>
  /\ patientGen = <<>>
  /\ view = "UPLOAD"
  /\ selectedPatientId = Undef
  /\ isBatchProcessing = FALSE
  /\ batchProgress = [current |-> 0, total |-> 0]
  /\ localRecords = <<>>
  /\ localGen = <<>>
  /\ folderPc = "idle"
  /\ folderUpdated = <<>>
  /\ folderGen = <<>>
  /\ folderFiles = <<>>
  /\ folderMounted = FALSE
  /\ avReportText = ""
  /\ avData = Undef
  /\ avStatus = "IDLE"
  /\ singles = <<>>
  /\ batchPc = "idle"
  /\ queue = <<>>
  /\ queueGen = <<>>
  /\ batchI = 0
  /\ calls = <<>>
  /\ progressLog = <<>>
  /\ apiKeyOk = TRUE
  /\ reconIncoming = <<>>
  /\ reconPrev = <<>>
  /\ reconStep = 0
  /\ logMsg = {}
  /\ logType = Undef
  /\ pastedTables = <<>>
  /\ pasteStep = 0

NextTime == ComputeTimeToStudy

\* calculateTimeToStudy applied to every pair of arguments
SpecTime == InitTime /\ [][NextTime]_vars

\* ------------------------------------------------- one table per import
\* tables that have a name column (every row has a name cell) or have none
NamedTables ==
  {t \in SeqsUpTo(NamedRows, MaxRows) :
     \A i, j \in 1..Len(t) : (t[i].nameCell = Undef) <=> (t[j].nameCell = Undef)}

InitReimport ==
  /\ pastedTables \in SeqsUpTo(NamedTables, MaxPastes)
  /\ pasteStep = 0
  /\ patientData = <<>>
  /\ patientGen = <<>>
  /\ view = "UPLOAD"
  /\ selectedPatientId = Undef
  /\ isBatchProcessing = FALSE
  /\ batchProgress = [current |-> 0, total |-> 0]
  /\ localRecords = <<>>
  /\ localGen = <<>>
  /\ folderPc = "idle"
  /\ folderUpdated = <<>>
  /\ folderGen = <<>>
  /\ folderFiles = <<>>
  /\ folderMounted = FALSE
  /\ avReportText = ""
  /\ avData = Undef
  /\ avStatus = "IDLE"
  /\ singles = <<>>
  /\ batchPc = "idle"
  /\ queue = <<>>
  /\ queueGen = <<>>
  /\ batchI = 0
  /\ calls = <<>>
  /\ progressLog = <<>>
  /\ apiKeyOk = TRUE
  /\ reconIncoming = <<>>
  /\ reconPrev = <<>>
  /\ reconStep = 0
  /\ logMsg = {}
  /\ logType = Undef
  /\ timeCalc = NoCalc

\* a table is processed in a visit of the uploader that has changed nothing
\* in its list so far
ProcessOneTable ==
  /\ localRecords = patientData
  /\ HandleManualProcess

NextReimport ==
  \/ ProcessOneTable
  \/ FinalizeUpload
  \/ ShowUpload

\* Tables are imported one after the other: each visit of the uploader
\* processes one table and finalizes it.
SpecReimport == InitReimport /\ [][NextReimport]_vars

\* ------------------------------------------------------- report matching
\* the uploader opened on a roster ("Import / Add Data"): its list holds the
\* roster's records
InitMatch ==
  /\ patientData \in Rosters \ {<<>>}
  /\ patientGen = [i \in 1..Len(patientData) |-> 0]
  /\ localRecords = patientData
  /\ localGen = patientGen
  /\ view = "UPLOAD"
  /\ selectedPatientId = Undef
  /\ isBatchProcessing = FALSE
  /\ batchProgress = [current |-> 0, total |-> 0]
  /\ folderPc = "idle"
  /\ folderUpdated = <<>>
  /\ folderGen = <<>>
  /\ folderFiles = <<>>
  /\ folderMounted = FALSE
  /\ avReportText = ""
  /\ avData = Undef
  /\ avStatus = "IDLE"
  /\ singles = <<>>
  /\ batchPc = "idle"
  /\ queue = <<>>
  /\ queueGen = <<>>
  /\ batchI = 0
  /\ calls = <<>>
  /\ progressLog = <<>>
  /\ apiKeyOk = TRUE
  /\ reconIncoming = <<>>
  /\ reconPrev = <<>>
  /\ reconStep = 0
  /\ logMsg = {}
  /\ logType = Undef
  /\ timeCalc = NoCalc
  /\ pastedTables = <<>>
  /\ pasteStep = 0

NextMatch ==
  \/ \E files \in SeqsUpTo(Files, MaxFiles) : HandleFolderUpload(files)
  \/ FolderFileRead

\* Folder uploads of up to MaxFiles files into the uploader's list, one
\* upload after the other.
SpecMatch == InitMatch /\ [][NextMatch]_vars

C2_ImportKeepsExtractionState ==
  reconStep = 1 =>
    \A i \in 1..Len(reconPrev[1]) :
      /\ i <= Len(patientData)
      /\ patientData[i].id = reconPrev[1][i].id
      /\ patientData[i].extractedData = reconPrev[1][i].extractedData
      /\ patientData[i].extractionStatus = reconPrev[1][i].extractionStatus
      /\ patientData[i].extractionError = reconPrev[1][i].extractionError

\* an extracted record has been re-imported by a row that carries its own
\* extractedData, extractionStatus and extractionError
C2_Witness ==
  /\ reconStep = 1
  /\ \E i \in 1..Len(reconPrev[1]), k \in 1..Len(reconIncoming) :
       /\ reconIncoming[k].id = reconPrev[1][i].id
       /\ reconPrev[1][i].extractedData = ServiceData
       /\ reconIncoming[k].extractedData = "dc"
       /\ reconIncoming[k].extractionStatus = "REVIEWED"
       /\ reconIncoming[k].extractionError = "ec"

\* the value the rows of the batch supply for a report field of the record
\* id: that of the last row with this id whose value is non-empty, else Undef
C3_Supplied(id, text) ==
  LET F(r) == IF text THEN r.radiologyReportText ELSE r.reportFilename
      ks == {k \in 1..Len(reconIncoming) :
               /\ reconIncoming[k].id = id
               /\ F(reconIncoming[k]) # Undef
               /\ F(reconIncoming[k]) # ""}
  IN IF ks = {} THEN Undef
     ELSE F(reconIncoming[CHOOSE k \in ks : \A m \in ks : m <= k])

\* C3 (SpecReconcile): for a record that was already in the roster, the merged
\* radiologyReportText, and likewise reportFilename, is the incoming value
\* when the batch supplies a non-empty one and the existing value otherwise;
\* an attached text or file name never becomes empty or undefined.
C3_ReportFieldsMerge ==
  reconStep = 1 =>
    \A i \in 1..Len(reconPrev[1]) :
      LET old == reconPrev[1][i]
          new == patientData[i]
          t == C3_Supplied(old.id, TRUE)
          f == C3_Supplied(old.id, FALSE)
      IN /\ new.radiologyReportText = (IF t # Undef THEN t ELSE old.radiologyReportText)
         /\ new.reportFilename = (IF f # Undef THEN f ELSE old.reportFilename)
         /\ old.radiologyReportText \notin {Undef, ""}
              => new.radiologyReportText \notin {Undef, ""}
         /\ old.reportFilename \notin {Undef, ""}
              => new.reportFilename \notin {Undef, ""}

\* a record with an attached report has been re-imported by a row whose
\* report column is the empty string, and by nothing else
C3_Witness ==
  /\ reconStep = 1
  /\ \E i \in 1..Len(reconPrev[1]) :
       /\ reconPrev[1][i].radiologyReportText = FileText
       /\ C3_Supplied(reconPrev[1][i].id, TRUE) = Undef
       /\ \E k \in 1..Len(reconIncoming) :
            /\ reconIncoming[k].id = reconPrev[1][i].id
            /\ reconIncoming[k].radiologyReportText = ""

\* C4 (SpecReconcile): reconciling is idempotent: handleDataLoaded applied a
\* second time with the same batch leaves the roster as the first application
\* left it, record for record, field for field and in the same order.
C4_Idempotent == reconStep = 2 => patientData = reconPrev[2]

\* the batch has named an id twice, with different rows, the id was not in
\* the roster before the first application, and another id was
C4_Witness ==
  /\ reconStep = 2
  /\ Len(reconIncoming) >= 2
  /\ reconIncoming[1].id = reconIncoming[2].id
  /\ reconIncoming[1] # reconIncoming[2]
  /\ Len(reconPrev[1]) = 1
  /\ Len(patientData) = 2

\* C5 (Spec): in every reachable state a roster record has extractedData
\* defined if and only if its extractionStatus is EXTRACTED or REVIEWED.
C5_DataIffExtracted ==
  \A i \in 1..Len(patientData) :
    patientData[i].extractedData # Undef
      <=> patientData[i].extractionStatus \in {"EXTRACTED", "REVIEWED"}

\* C6 (Spec): in every reachable state a roster record has extractionError
\* defined if and only if its extractionStatus is ERROR; a successful
\* extraction of a record in status ERROR leaves extractionError undefined.
C6_ErrorIffErrorStatus ==
  \A i \in 1..Len(patientData) :
    patientData[i].extractionError # Undef
      <=> patientData[i].extractionStatus = "ERROR"

\* the eligibility rule as the specification words it
C7_Qualifies(p) ==
  /\ p.radiologyReportText # Undef
  /\ p.radiologyReportText # ""
  /\ p.extractionStatus \in {"PENDING", "ERROR"}

\* a click on the batch button that starts a run
C7_StartsRun ==
  /\ batchPc = "idle"
  /\ batchPc' = "running" \/ progressLog' # progressLog

\* C7 (Spec): the queue of a batch run is exactly the roster records that
\* have a non-empty report text and status PENDING or ERROR when the run
\* starts, in roster order; so a record in ERROR with its text is queued
\* again, and a REVIEWED record or one without text is not.
C7_QueueIsEligibleRecords ==
  [][C7_StartsRun =>
       /\ progressLog'[1] = <<0, Len(SelectSeq(patientData, C7_Qualifies))>>
       /\ batchPc' = "running" => queue' = SelectSeq(patientData, C7_Qualifies)]_vars

\* a run whose queue retries the record a former run left in ERROR and
\* leaves out the REVIEWED record that precedes it in the roster
C7_Witness ==
  /\ batchPc = "running"
  /\ Len(patientData) = 2
  /\ Len(queue) = 1
  /\ queue[1].extractionStatus = "ERROR"
  /\ queue[1].id = patientData[2].id
  /\ patientData[1].extractionStatus = "REVIEWED"

\* the calls of the batch run that have not settled: a request is out, or a
\* retry is waiting for its delay
C8_InFlight == {k \in 1..Len(calls) : calls[k].phase \in {"call", "delay"}}

C9_WritesChunk ==
  /\ batchPc = "running"
  /\ Len(progressLog') = Len(progressLog) + 1

\* the roster record of the queue item k, before and after the write
C9_Before(k) == patientData[CHOOSE i \in 1..Len(patientData) : patientData[i].id = queue[k].id]
C9_After(k) == patientData'[CHOOSE i \in 1..Len(patientData) : patientData[i].id = queue[k].id]

C9_Succeeded(k, result) ==
  /\ C9_After(k).extractedData = result
  /\ C9_After(k).extractionStatus = "REVIEWED"
  /\ C9_After(k).extractionError = Undef

C9_Failed(k, messages) ==
  /\ C9_After(k).extractionStatus = "ERROR"
  /\ C9_After(k).extractionError \in messages
  /\ C9_After(k).extractedData = C9_Before(k).extractedData

\* C9 (SpecBatch): when a chunk is written, each of its items, whatever the
\* outcome and the completion order of the others, leaves its record with
\* the result, REVIEWED and no extractionError if its extraction succeeded,
\* and with ERROR, the failure message and its former extractedData if it
\* failed.  The item whose answer arrives in this very step is either.
C9_ResultPerItem ==
  [][C9_WritesChunk =>
       \A k \in (batchI + 1)..Len(calls) :
         CASE calls[k].phase = "ok" -> C9_Succeeded(k, calls[k].data)
           [] calls[k].phase = "err" -> C9_Failed(k, {calls[k].error})
           [] OTHER -> \/ C9_Succeeded(k, ServiceData)
                       \/ C9_Failed(k, {TransientError, PermanentError})]_vars

\* the first chunk of a six-item queue has been written: the record that an
\* earlier run had left in ERROR is REVIEWED without an error, the record
\* before it has failed
C9_Witness ==
  /\ batchPc = "running"
  /\ batchI = 5
  /\ queue[2].extractionStatus = "ERROR"
  /\ queue[2].extractionError # Undef
  /\ patientData[2].extractionStatus = "REVIEWED"
  /\ patientData[2].extractedData = ServiceData
  /\ patientData[2].extractionError = Undef
  /\ patientData[1].extractionStatus = "ERROR"
  /\ patientData[1].extractionError = PermanentError

C10_Chunks(n) == (n + 4) \div 5

\* C10 (SpecBatch): a run over n items dispatches exactly ceil(n/5) chunks;
\* the progress reported after the k-th chunk is (min(5k, n), n); the
\* reported count never decreases and never exceeds n; (n, n) is reported
\* exactly once, after the last chunk.
C10_Progress ==
  progressLog # <<>> =>
    LET n == progressLog[1][2]
        written == Len(progressLog) - 1
        last == progressLog[Len(progressLog)]
    IN /\ n >= 1
       /\ progressLog[1] = <<0, n>>
       /\ \A k \in 1..written :
            /\ progressLog[k + 1] = <<IF 5 * k < n THEN 5 * k ELSE n, n>>
            /\ progressLog[k][1] <= progressLog[k + 1][1]
            /\ progressLog[k + 1][1] <= n
       /\ batchProgress = [current |-> last[1], total |-> last[2]]
       /\ batchPc = "running" =>
            /\ n = Len(queue)
            /\ written < C10_Chunks(n)
            /\ Len(calls) = (IF 5 * (written + 1) < n THEN 5 * (written + 1) ELSE n)
            /\ \A k \in 1..Len(progressLog) : progressLog[k] # <<n, n>>
       /\ batchPc = "idle" =>
            /\ written = C10_Chunks(n)
            /\ last = <<n, n>>
            /\ Cardinality({k \in 1..Len(progressLog) : progressLog[k] = <<n, n>>}) = 1

\* a run over six items has ended after two chunks
C10_Witness ==
  /\ batchPc = "idle"
  /\ progressLog = << <<0, 6>>, <<5, 6>>, <<6, 6>> >>

\* C11 (SpecRun): once handleBatchProcess has been invoked during a run
\* (the run goes on with isBatchProcessing cleared), the calls in flight
\* finish and are recorded, and the run dispatches no further chunk.
C11_NoChunkAfterStop ==
  [][(batchPc = "running" /\ ~isBatchProcessing) => Len(calls') <= Len(calls)]_vars

\* the run has written every chunk: the last progress is (n, n), the flag is
\* cleared and no record with a report is left PENDING
C12_Done ==
  /\ progressLog # <<>>
  /\ batchPc = "idle"
  /\ ~isBatchProcessing
  /\ Len(progressLog) = 1 + C10_Chunks(progressLog[1][2])
  /\ progressLog[Len(progressLog)] = <<progressLog[1][2], progressLog[1][2]>>
  /\ \A i \in 1..Len(patientData) :
       Truthy(patientData[i].radiologyReportText)
         => patientData[i].extractionStatus \in {"REVIEWED", "ERROR"}

\* no extraction call of the run is waiting for its answer
C12_NoCallPending == \A k \in 1..Len(calls) : ~(calls[k].phase \in {"call", "delay"})

\* C12 (SpecRun): provided every extraction call eventually settles (again
\* and again no call is left waiting), a batch run that has started ends,
\* whatever mix of successes and failures its items have: every chunk of the
\* queue is written, every queued record has an outcome and isBatchProcessing
\* is cleared.
C12_RunCompletes == ([]<>C12_NoCallPending) => ((progressLog # <<>>) ~> C12_Done)

\* a run over six items has ended with one record failed, one extracted
C12_Witness ==
  /\ C12_Done
  /\ Len(progressLog) = 3
  /\ \E i, j \in 1..Len(patientData) :
       /\ patientData[i].extractionStatus = "ERROR"
       /\ patientData[i].extractionError = PermanentError
       /\ patientData[j].extractedData = ServiceData

\* the write of a chunk records the fourth 429 of an item as its error, and
\* records a 429 for no item that has made fewer than four requests
C13_Propagates ==
  C9_WritesChunk =>
    \A k \in (batchI + 1)..Len(calls) :
      /\ (calls[k].phase = "err" /\ calls[k].error = TransientError)
           => /\ C9_After(k).extractionStatus = "ERROR"
              /\ C9_After(k).extractionError = TransientError
      /\ C9_After(k).extractionError = TransientError
           => calls[k].requests = DefaultRetries + 1

\* the extraction k is not waiting for the service, or not for its delay
C13_Answered(k) == ~(k <= Len(calls) /\ calls[k].phase = "call")
C13_Elapsed(k) == ~(k <= Len(calls) /\ calls[k].phase = "delay")

\* C13 (SpecRetry): an extraction makes at most retries + 1 = 4 requests; a
\* 429 is thrown to the batch runner only by the fourth request, and the
\* record is then marked ERROR with that message; and the retries end: when
\* every request is answered and every delay elapses, every extraction
\* settles, also when the service answers every request with a 429.
C13_RetryBound ==
  /\ [](\A k \in 1..Len(calls) :
          /\ calls[k].requests <= DefaultRetries + 1
          /\ (calls[k].phase = "err" /\ calls[k].error = TransientError)
               => calls[k].requests = DefaultRetries + 1)
  /\ [][C13_Propagates]_vars
  /\ ((\A k \in 1..MaxRetryQueue : []<>C13_Answered(k) /\ []<>C13_Elapsed(k))
        => <>[]C12_NoCallPending)

\* the run on a single record has ended: its extraction threw the 429 that
\* answered its fourth request, and the record is ERROR with that message
C13_Witness ==
  /\ batchPc = "idle"
  /\ Len(patientData) = 1
  /\ patientData[1].extractionStatus = "ERROR"
  /\ patientData[1].extractionError = TransientError

\* the messages of the failures that are not transient: a rejected key, an
\* empty or malformed response, a blocked candidate, anything unclassified
C14_PermanentMessages ==
  {e.message : e \in {f \in AllFailures :
                         f.kind \in {"auth", "empty", "parse", "safety", "general"}}}

\* C14 (SpecRetry): a failure that is not transient is never retried: no
\* extraction waits to retry after such a failure, and an extraction that
\* failed the API-key check has made no request.
C14_PermanentNotRetried ==
  \A k \in 1..Len(calls) :
    /\ calls[k].phase = "delay" => calls[k].error \notin C14_PermanentMessages
    /\ calls[k].error = MissingKeyError
         => calls[k].phase = "err" /\ calls[k].requests = 0

\* the trigger signatures that the taxonomy marks retryable
C15_TaxonomyRetryable(e) ==
  \/ e.status = 429
  \/ "quota" \in e.has
  \/ "exhausted" \in e.has
  \/ e.status = 503
  \/ "overloaded" \in e.has
  \/ "unavailable" \in e.has

\* C15 (SpecRetry): a failure that the taxonomy marks retryable is retried
\* while attempts remain: an extraction throws such a failure only when no
\* retry is left.
C15_RetryableIsRetried ==
  \A k \in 1..Len(calls) :
    (/\ calls[k].phase = "err"
     /\ \E e \in AllFailures :
          C15_TaxonomyRetryable(e) /\ e.message = calls[k].error)
      => calls[k].retries = 0

\* the first row of the taxonomy table whose trigger the message satisfies
C16_TableRow(m) ==
  IF "429" \in m \/ "quota" \in m \/ "exhausted" \in m
    THEN "Rate Limit / Quota"
  ELSE IF "503" \in m \/ "overloaded" \in m \/ "unavailable" \in m
    THEN "Server Overload"
  ELSE IF "403" \in m \/ "api key" \in m \/ "permission" \in m
    THEN "Auth / Permission"
  ELSE IF "json" \in m \/ "parse" \in m \/ "syntax" \in m
    THEN "Response Parse Error"
  ELSE IF "safety" \in m \/ "blocked" \in m \/ "candidate" \in m
    THEN "Content Safety Block"
  ELSE "General Error"

\* C16 (SpecClassify): getErrorType gives every message exactly one category,
\* the first row of the taxonomy table whose trigger the lower-cased message
\* satisfies, and General when it satisfies none.
C16_FirstRowWins == logType # Undef => logType = C16_TableRow(logMsg)

\* the list that handleFolderUpload works on, after the file at hand
C17_After == IF folderPc' = "idle" THEN localRecords' ELSE folderUpdated'

\* C17 (SpecMatch): the file at hand goes to the lowest-indexed record whose
\* id occurs in the file name: that record gets the file's content and name;
\* every other record, also one whose id occurs in the name too, stays as it
\* was.
C17_FirstMatchWins ==
  [][folderPc = "reading" =>
       LET file == Head(folderFiles)
           hits == {i \in 1..Len(folderUpdated) : folderUpdated[i].id \in file.has}
       IN /\ Len(C17_After) = Len(folderUpdated)
          /\ \A i \in 1..Len(folderUpdated) :
               IF i \in hits /\ \A j \in hits : i <= j
               THEN /\ C17_After[i].radiologyReportText = file.content
                    /\ C17_After[i].reportFilename = file.name
               ELSE C17_After[i] = folderUpdated[i]]_vars

\* a file whose name holds both ids has gone to the first record only
C17_Witness ==
  /\ folderPc = "idle"
  /\ Len(localRecords) = 2
  /\ localRecords[1].reportFilename = "102_101.txt"
  /\ localRecords[2].reportFilename # "102_101.txt"
  /\ localRecords[1].id = "102"

\* C18 (SpecMatch): matching a file changes no record's extractionStatus,
\* extractedData or extractionError, empties no attached report text, adds
\* and removes no record; a file whose name holds no roster id changes
\* nothing.
C18_PurelyAdditive ==
  [][folderPc = "reading" =>
       /\ Len(C17_After) = Len(folderUpdated)
       /\ \A i \in 1..Len(folderUpdated) :
            /\ C17_After[i].id = folderUpdated[i].id
            /\ C17_After[i].extractionStatus = folderUpdated[i].extractionStatus
            /\ C17_After[i].extractedData = folderUpdated[i].extractedData
            /\ C17_After[i].extractionError = folderUpdated[i].extractionError
            /\ Truthy(folderUpdated[i].radiologyReportText)
                 => Truthy(C17_After[i].radiologyReportText)
       /\ (\A i \in 1..Len(folderUpdated) :
              folderUpdated[i].id \notin Head(folderFiles).has)
            => C17_After = folderUpdated]_vars

\* the rows processed so far for which neither the identifier column nor
\* the first column yields an identifier
C19_RowsWithoutId ==
  {<<t, k>> \in (1..pasteStep) \X (1..MaxRows) :
     /\ k <= Len(pastedTables[t])
     /\ pastedTables[t][k].idCell = Undef
     /\ ~Truthy(pastedTables[t][k].first)}

\* the roster records that carry a placeholder id
C19_PlaceholderRecords ==
  {i \in 1..Len(patientData) :
     \E idx \in 0..(MaxRows - 1) : patientData[i].id = PlaceholderId(idx)}

\* C19 (SpecImport): no row without an identifier is dropped: once the
\* imports are finalized, each such row of each table has a roster record of
\* its own under a placeholder id.
C19_NoRowDropped ==
  (view = "LIST" /\ pasteStep > 0)
    => Cardinality(C19_PlaceholderRecords) >= Cardinality(C19_RowsWithoutId)

\* C20 (SpecImport): after any import every roster record has a non-empty
\* id, also when the identifier cell of a row is present but empty.
C20_NonEmptyIds ==
  \A i \in 1..Len(patientData) : patientData[i].id \notin {"", Undef}

\* C21 (SpecUpload): while the uploader is at work the roster changes only
\* by handleDataLoaded, when the upload is finalized: attaching report files
\* changes no field of a roster record, so "Cancel and return to list" finds
\* the roster as it was when the upload view was opened.
C21_RosterChangesOnFinalizeOnly ==
  [][patientData' # patientData =>
       /\ view = "UPLOAD"
       /\ view' = "LIST"
       /\ Len(localRecords) > 0
       /\ patientData' = HandleDataLoadedFn(patientData, localRecords)]_vars

\* the cells that have supplied a name for the record id: <<table, row>>
C22_NameCells(id) ==
  {c \in (1..pasteStep) \X (1..MaxRows) :
     /\ c[2] <= Len(pastedTables[c[1]])
     /\ RowId(pastedTables[c[1]][c[2]], c[2] - 1) = id
     /\ pastedTables[c[1]][c[2]].nameCell # Undef}

\* C22 (SpecReimport): successive imports lose no metadata: once the tables
\* processed so far are imported, a record has the name that the last row
\* with a name cell gave it; a later table for the same id that has no name
\* column leaves that name as it was.  (name stands for the keys age,
\* createdDate, examDate, timeToStudy as well.)
C22_NoDataLost ==
  view = "LIST" =>
    \A i \in 1..Len(patientData) :
      LET cells == C22_NameCells(patientData[i].id)
          last == CHOOSE c \in cells :
                    \A d \in cells : d[1] < c[1] \/ (d[1] = c[1] /\ d[2] <= c[2])
      IN cells # {} => patientData[i].name = pastedTables[last[1]][last[2]].nameCell

\* C23 (SpecReconcile): a row whose id is not in the roster is inserted
\* after all the records that were there, which keep their positions; the
\* new record is PENDING and has neither extractedData nor extractionError,
\* whatever the row carries under those names.
C23_InsertIsFresh ==
  reconStep = 1 =>
    /\ \A i \in 1..Len(reconPrev[1]) :
         i <= Len(patientData) /\ patientData[i].id = reconPrev[1][i].id
    /\ \A k \in 1..Len(reconIncoming) :
         reconIncoming[k].id \notin IdsOf(reconPrev[1]) =>
           \E i \in (Len(reconPrev[1]) + 1)..Len(patientData) :
             /\ patientData[i].id = reconIncoming[k].id
             /\ patientData[i].extractionStatus = "PENDING"
             /\ patientData[i].extractedData = Undef
             /\ patientData[i].extractionError = Undef

\* C24 (SpecTime): for two parseable instants with d = end - start in
\* milliseconds, calculateTimeToStudy returns "Error" when d < 0 and
\* otherwise "<h>h <m>m" with 60*h + m = floor(d / 60000) and 0 <= m < 60,
\* so never a negative duration; it returns "" when an argument is missing
\* or unparseable.
C24_TimeToStudy ==
  timeCalc.result # Undef =>
    LET start == timeCalc.start
        end == timeCalc.end
        d == end.time - start.time
    IN IF start.valid /\ end.valid
       THEN IF d < 0
            THEN timeCalc.result = "Error"
            ELSE \E h \in 0..MaxHours, m \in 0..59 :
                   /\ 60 * h + m = d \div 60000
                   /\ timeCalc.result = ToString(h) \o "h " \o ToString(m) \o "m"
       ELSE timeCalc.result = ""

\* from 08:00 to 10:30 is "2h 30m"
C24_Witness ==
  /\ timeCalc.start = InstantInput(28800000)
  /\ timeCalc.end = InstantInput(37800000)
  /\ timeCalc.result = "2h 30m"

\* the roster record of queue item k shows the outcome of its extraction
C25_Outcome(k) ==
  LET r == patientData[FindIndex(patientData, queue[k].id)]
  IN IF calls[k].phase = "ok"
     THEN /\ r.extractionStatus = "REVIEWED"
          /\ r.extractedData = calls[k].data
          /\ r.extractionError = Undef
     ELSE /\ r.extractionStatus = "ERROR"
          /\ r.extractionError = calls[k].error

\* C25 (SpecRun): whenever an extraction call of chunk N+1 has been
\* dispatched, every item of the chunks 1..N has settled and the roster
\* shows its outcome: the write of chunk N is applied before chunk N+1
\* starts.
C25_WriteBeforeNextChunk ==
  \A k \in 1..Len(calls) :
    \A j \in 1..(((k - 1) \div BATCH_SIZE) * BATCH_SIZE) :
      /\ Settled(calls[j])
      /\ C25_Outcome(j)

\* the second chunk is in flight, the first has left a failed and an
\* extracted record
C25_Witness ==
  /\ batchPc = "running"
  /\ Len(calls) = 6
  /\ calls[6].phase = "call"
  /\ patientData[1].extractionStatus = "ERROR"
  /\ patientData[3].extractionStatus = "REVIEWED"

\* the ids of the queue, in order
C26_QueueIds(q) == [k \in 1..Len(q) |-> q[k].id]

\* C26 (SpecSnapshot): the queue of a run is fixed when the run starts.  As
\* long as the run goes on its queue names the same records in the same
\* order and no more calls are dispatched than the queue has items; a step
\* of the run changes only roster records that the queue names, so a record
\* that was added or gained its report text after the start gets no outcome
\* from this run; and when the run ends every queued record has an outcome.
C26_QueueIsSnapshot ==
  [][batchPc = "running" =>
       /\ batchPc' = "running" =>
            /\ C26_QueueIds(queue') = C26_QueueIds(queue)
            /\ Len(calls') <= Len(queue)
       /\ calls' # calls =>
            /\ Len(patientData') = Len(patientData)
            /\ \A i \in 1..Len(patientData) :
                 patientData[i].id \notin IdsOf(queue)
                   => patientData'[i] = patientData[i]
       /\ batchPc' = "idle" =>
            \A k \in 1..Len(queue) :
              patientData'[FindIndex(patientData', queue[k].id)].extractionStatus
                \in {"REVIEWED", "ERROR"}]_vars

\* the second chunk of a run is in flight, its first chunk is written, and
\* the roster holds a record with a report that is not in the queue: it was
\* imported after the run had started
C26_Witness ==
  /\ batchPc = "running"
  /\ batchI = 5
  /\ Len(calls) = 6
  /\ \E i \in 1..Len(patientData) :
       /\ patientData[i].id = "107"
       /\ Eligible(patientData[i])
       /\ "107" \notin IdsOf(queue)

\* C27 (SpecWriteBack): the write-back of a completed single-record
\* extraction changes only radiologyReportText, extractedData,
\* extractionStatus and extractionError of its record: id, name and
\* reportFilename of the record are what the roster held just before the
\* write, and every other record is unchanged, also when an import modified
\* the record while the call was in flight.
C27_WriteBackFrame ==
  [][\A k \in 1..Len(singles) :
       (singles' = RemoveAt(singles, k) /\ singles[k].call.phase = "call")
         => /\ Len(patientData') = Len(patientData)
            /\ \A i \in 1..Len(patientData) :
                 IF patientData[i].id = singles[k].patient.id
                 THEN /\ patientData'[i].id = patientData[i].id
                      /\ patientData'[i].name = patientData[i].name
                      /\ patientData'[i].reportFilename = patientData[i].reportFilename
                 ELSE patientData'[i] = patientData[i]]_vars

\* C28 (SpecBatch): a record that is REVIEWED is never ERROR or PENDING
\* afterwards, however the answers to the batch run's calls and to a
\* single-record extraction interleave.
C28_ReviewedIsFinal ==
  [][\A i \in 1..Len(patientData) :
       patientData[i].extractionStatus = "REVIEWED"
         => /\ i <= Len(patientData')
            /\ patientData'[i].extractionStatus \notin {"ERROR", "PENDING"}]_vars

C30_LedgerWriteFrame ==
  [][(batchPc = "running" /\ progressLog' # progressLog) =>
       /\ Len(patientData') = Len(patientData)
       /\ \A i \in 1..Len(patientData) :
            IF \E k \in (batchI + 1)..Len(calls) : queue[k].id = patientData[i].id
            THEN /\ patientData'[i].id = patientData[i].id
                 /\ patientData'[i].name = patientData[i].name
                 /\ patientData'[i].radiologyReportText = patientData[i].radiologyReportText
                 /\ patientData'[i].reportFilename = patientData[i].reportFilename
            ELSE patientData'[i] = patientData[i]]_vars

\* The second record was renamed by an import after the run had started (the
\* queue holds its old name) and the uploader was opened again while it was
\* still PENDING; the write of the first chunk has since made it REVIEWED
\* and kept the new name.
C30_Witness ==
  /\ view = "UPLOAD"
  /\ batchPc = "running"
  /\ batchI = 5
  /\ queue[2].name = DefaultName
  /\ patientData[2].name = "Bob"
  /\ patientData[2].extractionStatus = "REVIEWED"
  /\ Len(localRecords) >= 2
  /\ localRecords[2].id = "102"
  /\ localRecords[2].extractionStatus = "PENDING"

====
